---- MODULE Spec2Model ----
(***************************************************************************)
(* Model of crates-rustdoc-gen (src/src/main.rs): the batch loop of main,  *)
(* process_github_repo with its tag resolution and its cascade of cargo    *)
(* rustdoc invocations, and the failure report.                            *)
(*                                                                         *)
(* Spec is the program as main runs it.  FairSpec adds that its steps are  *)
(* taken.  SpecSemver calls process_github_repo with check_semver set or   *)
(* not, SpecRerun runs the program twice on one crate with the same        *)
(* answers of its collaborators, and SpecPaths derives the local paths of  *)
(* two repositories.                                                       *)
(*                                                                         *)
(* Strings are sequences of atoms.  Crate names, versions and tag names    *)
(* are sequences of characters; a diagnostic text is a sequence of text    *)
(* fragments; a repository URL is a sequence of URL fragments.  Substring  *)
(* and prefix tests are computed on these sequences.                       *)
(***************************************************************************)
EXTENDS Integers, Sequences, FiniteSets, TLC

(***************************************************************************)
(* Bounds of the model.                                                    *)
(***************************************************************************)
MaxCrates == 2
MaxTags == 2
MaxRepoLen == 4

(***************************************************************************)
(* String helpers (std::str).                                              *)
(***************************************************************************)
\* str::contains: needle occurs in hay as a contiguous subsequence.
Contains(hay, needle) ==
    \E i \in 0..(Len(hay) - Len(needle)) :
        SubSeq(hay, i + 1, i + Len(needle)) = needle

\* str::starts_with
StartsWith(s, prefix) ==
    /\ Len(prefix) <= Len(s)
    /\ SubSeq(s, 1, Len(prefix)) = prefix

\* str::ends_with
EndsWith(s, suffix) ==
    /\ Len(suffix) <= Len(s)
    /\ SubSeq(s, Len(s) - Len(suffix) + 1, Len(s)) = suffix

\* str::strip_prefix(..).expect(..): the caller has checked starts_with.
StripPrefix(s, prefix) == SubSeq(s, Len(prefix) + 1, Len(s))

\* str::trim_end_matches: removes the suffix repeatedly.
RECURSIVE TrimEndMatches(_, _)
TrimEndMatches(s, suffix) ==
    IF Len(suffix) > 0 /\ EndsWith(s, suffix)
    THEN TrimEndMatches(SubSeq(s, 1, Len(s) - Len(suffix)), suffix)
    ELSE s

\* str::replace of one atom by a sequence of atoms.
RECURSIVE Replace(_, _, _)
Replace(s, from, to) ==
    IF s = <<>> THEN <<>>
    ELSE (IF Head(s) = from THEN to ELSE <<Head(s)>>) \o Replace(Tail(s), from, to)

(***************************************************************************)
(* Statics.                                                                *)
(***************************************************************************)
BASE_PATH == <<"/var/tmp/crates-rustdoc-gen/">>
GITHUB_PREFIX == <<"https://github.com/">>
GITHUB_GIT_PREFIX == <<"git@github.com:">>

(***************************************************************************)
(* The registry's answer: crates_io_api::Crate records.  repository is an  *)
(* Option<String>.                                                         *)
(***************************************************************************)
NoString == [some |-> FALSE, val |-> <<>>]
Some(s) == [some |-> TRUE, val |-> s]

Catalog ==
    { [name |-> <<"a">>, max_version |-> <<"1">>,
       repository |-> Some(<<"https://github.com/", "o", "/", "r">>)],
      [name |-> <<"a", "-", "b">>, max_version |-> <<"1", "0">>,
       repository |-> Some(<<"https://github.com/", "o", "/", "r", ".git">>)],
      [name |-> <<"c">>, max_version |-> <<"1">>,
       repository |-> Some(<<"https://gitlab.com/", "o", "/", "c">>)],
      [name |-> <<"d">>, max_version |-> <<"1">>,
       repository |-> NoString] }

\* The crates the registry's answer can hold next, after those in seen: crate
\* names are unique and the page holds at most MaxCrates crates.
NextCrates(seen) ==
    IF Len(seen) >= MaxCrates THEN {}
    ELSE { c \in Catalog : \A i \in 1..Len(seen) : seen[i].name # c.name }

(***************************************************************************)
(* Tag resolution.                                                         *)
(***************************************************************************)
\* The candidate tag names, in the order they are tried.
tag_formats(crate_name, version) ==
    << version,
       <<"v">> \o version,
       crate_name \o <<"-">> \o version,
       crate_name \o <<"-", "v">> \o version >>

NumTagFormats == 4

\* The tag names the repository of a crate can hold: the candidates of the
\* crate, and its version followed by one more digit.
TagUniverse(crate_name, version) ==
    { tag_formats(crate_name, version)[i] : i \in 1..NumTagFormats }
        \cup { version \o <<"0">> }

\* The tag listings the repository of a crate can have.
TagSets(crate_name, version) ==
    { T \in SUBSET TagUniverse(crate_name, version) : Cardinality(T) <= MaxTags }

\* A set of tag names as the lines git prints, each ended by a newline.
RECURSIVE Lines(_)
Lines(T) ==
    IF T = {} THEN <<>>
    ELSE LET t == CHOOSE x \in T : \A y \in T : Len(x) <= Len(y)
         IN  t \o <<"\n">> \o Lines(T \ {t})

\* Variant of git_tag_l: the pattern is not passed, every tag is listed.
git_tag_l_all(repo_tags, pattern) == Lines(repo_tags)

\* Standard output of `git tag -l <pattern>`: the tags that match the
\* pattern.  No atom of a crate name or version is a glob metacharacter, so
\* a tag matches the pattern when it equals it.
git_tag_l(repo_tags, pattern) == Lines({ t \in repo_tags : t = pattern })

\* Variant of run_is_err: every command is run unchecked.
run_is_err_spawn_only(outcome, unchecked) == ~outcome.spawned

\* duct's run(): an error when the command could not be spawned, or, unless
\* unchecked, when it exited with a non-zero status.
run_is_err(outcome, unchecked) ==
    \/ ~outcome.spawned
    \/ (~unchecked /\ outcome.code # 0)

\* Result<bool>: "OkTrue", "OkFalse" or "Err".
check_if_git_tag_exists(repo_tags, tag_name, outcome) ==
    IF run_is_err(outcome, FALSE) THEN "Err"
    ELSE IF Contains(git_tag_l(repo_tags, tag_name), tag_name \o <<"\n">>)
         THEN "OkTrue"
         ELSE "OkFalse"

\* The result of one `git tag -l` per candidate tried, up to the first match.
\* outcomes[i] is how the i-th command ends, if it is run.
RECURSIVE run_tag_queries(_, _, _, _)
run_tag_queries(repo_tags, formats, outcomes, i) ==
    IF i > Len(formats) THEN <<>>
    ELSE LET r == check_if_git_tag_exists(repo_tags, formats[i], outcomes[i])
         IN  IF r = "OkTrue"
             THEN << [tag_name |-> formats[i], result |-> r] >>
             ELSE << [tag_name |-> formats[i], result |-> r] >>
                    \o run_tag_queries(repo_tags, formats, outcomes, i + 1)

\* The queries made and the Option<String> returned: the candidate whose
\* query answered Ok(true), None when the loop ran out of candidates.
discover_tag_format(repo_tags, crate_name, version, outcomes) ==
    LET q == run_tag_queries(repo_tags, tag_formats(crate_name, version), outcomes, 1)
    IN  [ queries |-> q,
          tag_name |-> IF q # <<>> /\ q[Len(q)].result = "OkTrue"
                       THEN Some(q[Len(q)].tag_name)
                       ELSE NoString ]

(***************************************************************************)
(* Working copy paths.                                                     *)
(***************************************************************************)
org_and_repo_name(repo_path) ==
    TrimEndMatches(TrimEndMatches(StripPrefix(repo_path, GITHUB_PREFIX), <<"/">>),
                   <<".git">>)

git_path(repo_path) == GITHUB_GIT_PREFIX \o org_and_repo_name(repo_path) \o <<".git">>

\* The replacement of '/' is the two characters "__".
local_repo_path(repo_path) ==
    BASE_PATH \o Replace(org_and_repo_name(repo_path), "/", <<"_", "_">>)

(***************************************************************************)
(* The cargo rustdoc invocations.                                          *)
(***************************************************************************)
Strategies == {"S0", "S1", "S1b", "S2", "S2b", "S3"}

RustdocTail ==
    <<"--", "--document-private-items", "-Zunstable-options", "--output-format", "json">>

\* Variant of cargo_args: S3 is run with --all-features.
cargo_args_s3_all_features(strategy, crate_name) ==
    <<"cargo", "+nightly", "rustdoc">> \o
    (CASE strategy = "S0"  -> <<"--package">> \o crate_name \o <<"--all-features">>
       [] strategy = "S1"  -> <<"--all-features">>
       [] strategy = "S1b" -> <<>>
       [] strategy = "S2"  -> <<"--package">> \o crate_name \o <<"--lib", "--all-features">>
       [] strategy = "S2b" -> <<"--package">> \o crate_name \o <<"--lib">>
       [] strategy = "S3"  -> <<"--package">> \o crate_name \o <<"--all-features">>) \o
    RustdocTail

\* The argument vector of each invocation.
cargo_args(strategy, crate_name) ==
    <<"cargo", "+nightly", "rustdoc">> \o
    (CASE strategy = "S0"  -> <<"--package">> \o crate_name \o <<"--all-features">>
       [] strategy = "S1"  -> <<"--all-features">>
       [] strategy = "S1b" -> <<>>
       [] strategy = "S2"  -> <<"--package">> \o crate_name \o <<"--lib", "--all-features">>
       [] strategy = "S2b" -> <<"--package">> \o crate_name \o <<"--lib">>
       [] strategy = "S3"  -> <<"--package">> \o crate_name) \o
    RustdocTail

\* The texts cargo can write to standard error, as sequences of fragments.
StderrTexts ==
    { <<"error">>,
      <<"ambiguous">>,
      <<"--lib">>,
      <<"single target">>,
      <<"--lib", "single target">>,
      <<"single target", "error", "--lib">>,
      <<"ambiguous", "--lib">>,
      <<"single target", "ambiguous">>,
      <<"--lib", "ambiguous", "single target">> }

\* Variant of select_fallback: the "--lib"/"single target" pair is tested first.
select_fallback_lib_first(stderr) ==
    IF Contains(stderr, <<"--lib">>) /\ Contains(stderr, <<"single target">>) THEN "S2"
    ELSE IF Contains(stderr, <<"ambiguous">>) THEN "S1"
         ELSE "S3"

\* Variant of select_fallback: one marker of the pair is enough for S2.
select_fallback_either(stderr) ==
    IF Contains(stderr, <<"ambiguous">>) THEN "S1"
    ELSE IF Contains(stderr, <<"--lib">>) \/ Contains(stderr, <<"single target">>)
         THEN "S2"
         ELSE "S3"

\* The invocation that follows a failed default build: the branch taken on
\* the captured standard error.
select_fallback(stderr) ==
    IF Contains(stderr, <<"ambiguous">>) THEN "S1"
    ELSE IF Contains(stderr, <<"--lib">>) /\ Contains(stderr, <<"single target">>)
         THEN "S2"
         ELSE "S3"

\* Variant of next_on_failure: a failed S1b or S2b goes on to S3.
next_on_failure_cascade(strategy) ==
    CASE strategy = "S1" -> "S1b"
      [] strategy = "S2" -> "S2b"
      [] strategy \in {"S1b", "S2b"} -> "S3"
      [] OTHER -> ""

\* Variant of next_on_failure: the error of a failed S1 is returned at once.
next_on_failure_stop(strategy) ==
    CASE strategy = "S2" -> "S2b"
      [] OTHER -> ""

\* The invocation that follows a failed fallback, "" when its error is
\* returned with `?`.
next_on_failure(strategy) ==
    CASE strategy = "S1" -> "S1b"
      [] strategy = "S2" -> "S2b"
      [] OTHER -> ""

(***************************************************************************)
(* Commands and their outcomes.                                            *)
(***************************************************************************)
Succeeded == [spawned |-> TRUE, code |-> 0]
NotSpawned == [spawned |-> FALSE, code |-> 0]
Exited(c) == [spawned |-> TRUE, code |-> c]

GitOutcomes == {Succeeded, Exited(128)}
CargoOutcomes == {Succeeded, Exited(101)}
DefaultBuildOutcomes == {Succeeded, Exited(1), Exited(101), NotSpawned}
MvOutcomes == {Succeeded, Exited(1)}

\* A command that was run, with how it ended.
Op(cmd, strategy, arg, outcome) ==
    [cmd |-> cmd, strategy |-> strategy, arg |-> arg,
     spawned |-> outcome.spawned, code |-> outcome.code]

NoOp == Op("", "", <<>>, Succeeded)

\* anyhow::Result<()> of process_github_repo.
OkUnit == [ok |-> TRUE, err |-> NoOp]
Err(op) == [ok |-> FALSE, err |-> op]

NoCrate == [name |-> <<>>, max_version |-> <<>>, repository |-> NoString]

\* The file rustdoc writes and the destination of the artifact.
underscored_crate_name(crate_name) == Replace(crate_name, "-", <<"_">>)

mv_source(repo_path, crate_name) ==
    local_repo_path(repo_path) \o <<"/", "target/doc", "/">>
        \o underscored_crate_name(crate_name) \o <<".json">>

\* Variant of mv_dest: the version is left out of the file name.
mv_dest_no_version(crate_name, version) ==
    <<"./localdata/rustdocs/">> \o underscored_crate_name(crate_name) \o <<".json">>

mv_dest(crate_name, version) ==
    <<"./localdata/rustdocs/">> \o underscored_crate_name(crate_name)
        \o <<"-">> \o version \o <<".json">>

check_semver == FALSE

(***************************************************************************)
(* State.                                                                  *)
(***************************************************************************)
VARIABLES
    pc,          \* position in main / process_github_repo
    exit,        \* how main ended: "running", "Ok", "Err" or "panic"
    crates,      \* the crates of the registry's answer the loop has reached
    worktree,    \* local path -> checked-out revision, for the paths holding a .git
    artifacts,   \* destinations of the relocated rustdoc JSON files, in order
    failures,    \* the failures vector of main
    report,      \* the records written to ./localdata/errors.log
    crate_info,  \* the crate process_github_repo is running for
    repo_tags,   \* the tags of the working copy read by discover_tag_format
    queries,     \* the tag queries made by discover_tag_format
    tag_name,    \* the Option<String> discover_tag_format returned
    stderr,      \* captured standard error of the default build
    strategy,    \* the fallback invocation about to run
    ops,         \* the commands process_github_repo has run (tag queries apart)
    result,      \* the value process_github_repo returned
    semver,      \* the cargo-semver-checks run whose Result is being matched
    semver_enabled, \* the check_semver argument of process_github_repo
    script,      \* the answers of the collaborators, when they are fixed for two runs
    run,         \* which run of the program this is
    repo_paths,  \* two repo_path arguments whose local paths are derived
    local_paths  \* the local paths derived from repo_paths

vars ==
    << pc, exit, crates, worktree, artifacts, failures, report, crate_info,
       repo_tags, queries, tag_name, stderr, strategy, ops, result, semver,
       semver_enabled, script, run, repo_paths, local_paths >>

globals == << exit, crates, artifacts, failures, report >>
frame ==
    << crate_info, repo_tags, queries, tag_name, stderr, strategy, ops, result, semver >>

\* What no step of one run of the program changes.
setting == << semver_enabled, script, run, repo_paths, local_paths >>

NoWorktree == [p \in {} |-> NoString]

\* No answers are fixed: every command ends in any way it can.
NoScript ==
    [on |-> FALSE, crate |-> NoCrate, tags |-> {},
     queries |-> [i \in 1..NumTagFormats |-> Succeeded],
     s0 |-> Succeeded, text |-> <<>>, fb |-> <<Succeeded, Succeeded>>]

\* The state in which main starts, nothing downloaded and nothing produced.
InitProgram ==
    /\ pc = "query"
    /\ exit = "running"
    /\ crates = <<>>
    /\ worktree = NoWorktree
    /\ artifacts = <<>>
    /\ failures = <<>>
    /\ report = <<>>
    /\ crate_info = NoCrate
    /\ repo_tags = {}
    /\ queries = <<>>
    /\ tag_name = NoString
    /\ stderr = <<>>
    /\ strategy = ""
    /\ ops = <<>>
    /\ result = OkUnit
    /\ semver = NoOp

Init ==
    /\ InitProgram
    /\ semver_enabled = check_semver
    /\ script = NoScript
    /\ run = 1
    /\ repo_paths = <<>>
    /\ local_paths = <<>>

\* The frame of process_github_repo when it is entered for crate c.
EnterFrame(c) ==
    /\ crate_info' = c
    /\ repo_tags' = {}
    /\ queries' = <<>>
    /\ tag_name' = NoString
    /\ stderr' = <<>>
    /\ strategy' = ""
    /\ ops' = <<>>
    /\ result' = OkUnit
    /\ semver' = NoOp

\* process_github_repo returns r.
ReturnWith(r) ==
    /\ pc' = "ret"
    /\ result' = r

(***************************************************************************)
(* main                                                                    *)
(***************************************************************************)
\* client.crates(query)?
RegistryQuery ==
    /\ pc = "query"
    /\ \/ /\ pc' = "loop"
          /\ exit' = exit
       \/ /\ pc' = "done"
          /\ exit' = "Err"
    /\ UNCHANGED << crates, worktree, artifacts, failures, report, frame >>
    /\ UNCHANGED setting

\* The loop reaches a crate without repository information.
SkipNoRepository ==
    /\ pc = "loop"
    /\ \E c \in NextCrates(crates) :
         /\ ~c.repository.some
         /\ crates' = Append(crates, c)
    /\ UNCHANGED << pc, exit, worktree, artifacts, failures, report, frame >>
    /\ UNCHANGED setting

\* The loop reaches a crate whose repository is not on GitHub.
SkipNonGithub ==
    /\ pc = "loop"
    /\ \E c \in NextCrates(crates) :
         /\ c.repository.some
         /\ ~StartsWith(c.repository.val, GITHUB_PREFIX)
         /\ crates' = Append(crates, c)
    /\ UNCHANGED << pc, exit, worktree, artifacts, failures, report, frame >>
    /\ UNCHANGED setting

\* The loop reaches a crate on GitHub:
\* process_github_repo(&crate_info, repository, check_semver) is called.
EnterProcess ==
    /\ pc = "loop"
    /\ \E c \in NextCrates(crates) :
         /\ c.repository.some
         /\ StartsWith(c.repository.val, GITHUB_PREFIX)
         /\ crates' = Append(crates, c)
         /\ EnterFrame(c)
    /\ pc' = "acquire"
    /\ UNCHANGED << exit, worktree, artifacts, failures, report >>
    /\ UNCHANGED setting

\* Variant of push_failure: the error is dropped.
push_failure_dropped(fs, c, r) == fs

\* Variant of push_failure: a record is pushed whatever was returned.
push_failure_always(fs, c, r) == Append(fs, [crate |-> c, error |-> r.err])

\* if let Err(e) = process_github_repo(..) { failures.push((crate_info, e)) }
push_failure(fs, c, r) ==
    IF r.ok THEN fs ELSE Append(fs, [crate |-> c, error |-> r.err])

Return ==
    /\ pc = "ret"
    /\ failures' = push_failure(failures, crates[Len(crates)], result)
    /\ pc' = "loop"
    /\ EnterFrame(NoCrate)
    /\ UNCHANGED << exit, crates, worktree, artifacts, report >>
    /\ UNCHANGED setting

\* The lines written to the error log, one per failure.
report_lines(fs) ==
    [ i \in 1..Len(fs) |->
        [name |-> fs[i].crate.name, max_version |-> fs[i].crate.max_version,
         error |-> fs[i].error] ]

\* File::create, the writeln! loop through the BufWriter and Ok(()).  When
\* File::create fails the old file is kept.  Otherwise k records reach the
\* file: a writeln! that fails returns the error, while an error of the flush
\* done when the BufWriter is dropped is ignored.
WriteReport ==
    /\ pc = "loop"
    /\ pc' = "done"
    /\ \/ /\ report' = report
          /\ exit' = "Err"
       \/ \E k \in 0..Len(failures) :
            /\ report' = SubSeq(report_lines(failures), 1, k)
            /\ exit' \in (IF k = Len(failures) THEN {"Ok"} ELSE {"Ok", "Err"})
    /\ UNCHANGED << crates, worktree, artifacts, failures, frame >>
    /\ UNCHANGED setting

(***************************************************************************)
(* process_github_repo                                                     *)
(***************************************************************************)
repository == crate_info.repository.val
path == local_repo_path(repository)

\* Variant of already_downloaded: the working copy is never looked for.
already_downloaded_never == FALSE

\* Path::new(".../.git").is_dir()
already_downloaded == path \in DOMAIN worktree

\* git fetch in the working copy that is already there.
Fetch ==
    /\ pc = "acquire"
    /\ already_downloaded
    /\ \E o \in GitOutcomes :
         LET op == Op("git fetch", "", path, o)
         IN  /\ ops' = Append(ops, op)
             /\ IF run_is_err(o, FALSE)
                THEN ReturnWith(Err(op))
                ELSE pc' = "tags" /\ result' = result
    /\ UNCHANGED << globals, worktree, crate_info, repo_tags, queries, tag_name,
                    stderr, strategy >>
    /\ UNCHANGED << semver, setting >>

\* git clone into the local path.
Clone ==
    /\ pc = "acquire"
    /\ ~already_downloaded
    /\ \E o \in GitOutcomes :
         LET op == Op("git clone", "", git_path(repository) \o path, o)
         IN  /\ ops' = Append(ops, op)
             /\ IF run_is_err(o, FALSE)
                THEN /\ ReturnWith(Err(op))
                     /\ worktree' = worktree
                ELSE /\ pc' = "tags"
                     /\ result' = result
                     /\ worktree' = [p \in DOMAIN worktree \cup {path} |->
                                        IF p = path THEN NoString ELSE worktree[p]]
    /\ UNCHANGED << globals, crate_info, repo_tags, queries, tag_name, stderr, strategy >>
    /\ UNCHANGED << semver, setting >>

\* The tag listings the working copy can have and the ways its tag queries
\* can end: any, unless the script fixes them.
TagAnswers ==
    IF script.on THEN {script.tags}
    ELSE TagSets(crate_info.name, crate_info.max_version)

QueryAnswers ==
    IF script.on THEN {script.queries}
    ELSE [1..NumTagFormats -> GitOutcomes]

\* discover_tag_format(&local_repo_path, &crate_info.name, max_version)
DiscoverTag ==
    /\ pc = "tags"
    /\ \E T \in TagAnswers, outcomes \in QueryAnswers :
         LET d == discover_tag_format(T, crate_info.name, crate_info.max_version, outcomes)
         IN  /\ repo_tags' = T
             /\ queries' = d.queries
             /\ tag_name' = d.tag_name
    /\ pc' = "match"
    /\ UNCHANGED << globals, worktree, crate_info, stderr, strategy, ops, result >>
    /\ UNCHANGED << semver, setting >>

\* Variant of on_no_tag: a missing tag is returned as an error.
on_no_tag_error == [ok |-> FALSE, err |-> Op("", "", <<>>, [spawned |-> TRUE, code |-> 0])]

\* match .. { Some(tag_name) => tag_name, None => { println!(..); return Ok(()) } }
\* The call of discover_tag_format is over once its value is matched: what it
\* read and did is dropped by NoTag and by Checkout.
on_no_tag == OkUnit

NoTag ==
    /\ pc = "match"
    /\ ~tag_name.some
    /\ ReturnWith(on_no_tag)
    /\ repo_tags' = {}
    /\ queries' = <<>>
    /\ UNCHANGED << globals, worktree, crate_info, tag_name, stderr, strategy, ops >>
    /\ UNCHANGED << semver, setting >>

\* How the cargo-semver-checks binary can end.
SemverOutcomes == {Succeeded, Exited(1), NotSpawned}

semver_args(package_name) ==
    <<"cargo-semver-checks", "semver-checks", "check-release", "--package">>
        \o package_name

\* Variant of semver_error_returned: the error is returned with `?`.
semver_error_returned_always(op) == TRUE

\* if let Err(e) = attempt_cargo_semver_checks(..) { println!(..) }: the error
\* is printed and not returned.
semver_error_returned(op) == FALSE

\* The tag was found and check_semver is set: attempt_cargo_semver_checks runs
\* the binary in the working copy.  Its Result is matched and dropped before
\* the checkout.
SemverCheck ==
    /\ pc = "match"
    /\ tag_name.some
    /\ semver_enabled
    /\ \E o \in SemverOutcomes :
         LET op == Op("cargo-semver-checks", "", semver_args(crate_info.name), o)
         IN  /\ semver' = op
             /\ IF run_is_err(o, FALSE) /\ semver_error_returned(op)
                THEN ReturnWith(Err(op))
                ELSE pc' = "checkout" /\ result' = result
    /\ repo_tags' = {}
    /\ queries' = <<>>
    /\ UNCHANGED << globals, worktree, crate_info, tag_name, stderr, strategy, ops >>
    /\ UNCHANGED setting

\* The tag was found: git checkout <tag_name> in the working copy, at once
\* when check_semver is not set.
Checkout ==
    /\ \/ pc = "match" /\ tag_name.some /\ ~semver_enabled
       \/ pc = "checkout"
    /\ \E o \in GitOutcomes :
         LET op == Op("git checkout", "", tag_name.val, o)
         IN  /\ ops' = Append(ops, op)
             /\ IF run_is_err(o, FALSE)
                THEN /\ ReturnWith(Err(op))
                     /\ worktree' = worktree
                ELSE /\ pc' = "S0"
                     /\ result' = result
                     /\ worktree' = [worktree EXCEPT ![path] = tag_name]
    /\ repo_tags' = {}
    /\ queries' = <<>>
    /\ semver' = NoOp
    /\ UNCHANGED << globals, crate_info, tag_name, stderr, strategy >>
    /\ UNCHANGED setting

\* The default build: cargo rustdoc --package <name> --all-features, with
\* standard error captured and the exit status unchecked.  run() can still
\* fail to spawn the command, and expect() then panics.
BuildDefault ==
    /\ pc = "S0"
    /\ \E o \in DefaultBuildOutcomes, text \in StderrTexts :
         LET op == Op("cargo rustdoc", "S0", cargo_args("S0", crate_info.name), o)
         IN  /\ ops' = Append(ops, op)
             /\ IF run_is_err(o, TRUE)
                THEN /\ pc' = "done"
                     /\ exit' = "panic"
                     /\ UNCHANGED << stderr, strategy >>
                ELSE IF o.code = 0
                THEN /\ pc' = "mv"
                     /\ UNCHANGED << exit, stderr, strategy >>
                ELSE /\ pc' = "fallback"
                     /\ stderr' = text
                     /\ strategy' = select_fallback(text)
                     /\ exit' = exit
    /\ UNCHANGED << crates, worktree, artifacts, failures, report, crate_info,
                    repo_tags, queries, tag_name, result >>
    /\ UNCHANGED << semver, setting >>

\* Variant of fallback_error: the error of the first fallback invocation.
fallback_error_first(new_ops) ==
    LET b == SelectSeq(new_ops, LAMBDA o : o.cmd = "cargo rustdoc")
    IN  b[2]

\* The error `?` returns from a fallback invocation: the error of the run
\* that just failed, the last of new_ops.
fallback_error(new_ops) == new_ops[Len(new_ops)]

\* One invocation of the fallback branch that was selected.
BuildFallback ==
    /\ pc = "fallback"
    /\ \E o \in CargoOutcomes :
         LET op == Op("cargo rustdoc", strategy, cargo_args(strategy, crate_info.name), o)
             new_ops == Append(ops, op)
         IN  /\ ops' = new_ops
             /\ IF ~run_is_err(o, FALSE)
                THEN /\ pc' = "mv"
                     /\ UNCHANGED << strategy, result >>
                ELSE IF next_on_failure(strategy) # ""
                THEN /\ pc' = "fallback"
                     /\ strategy' = next_on_failure(strategy)
                     /\ result' = result
                ELSE /\ ReturnWith(Err(fallback_error(new_ops)))
                     /\ strategy' = strategy
    /\ UNCHANGED << globals, worktree, crate_info, repo_tags, queries, tag_name, stderr >>
    /\ UNCHANGED << semver, setting >>

\* mv <path>/target/doc/<name>.json ./localdata/rustdocs/<name>-<version>.json
Relocate ==
    /\ pc = "mv"
    /\ \E o \in MvOutcomes :
         LET op == Op("mv", "",
                      mv_source(repository, crate_info.name)
                          \o mv_dest(crate_info.name, crate_info.max_version), o)
         IN  /\ ops' = Append(ops, op)
             /\ IF run_is_err(o, FALSE)
                THEN /\ ReturnWith(Err(op))
                     /\ artifacts' = artifacts
                ELSE /\ ReturnWith(OkUnit)
                     /\ artifacts' =
                          Append(artifacts, mv_dest(crate_info.name, crate_info.max_version))
    /\ UNCHANGED << exit, crates, worktree, failures, report, crate_info,
                    repo_tags, queries, tag_name, stderr, strategy >>
    /\ UNCHANGED << semver, setting >>

Next ==
    \/ RegistryQuery
    \/ SkipNoRepository
    \/ SkipNonGithub
    \/ EnterProcess
    \/ Fetch
    \/ Clone
    \/ DiscoverTag
    \/ NoTag
    \/ Checkout
    \/ BuildDefault
    \/ BuildFallback
    \/ Relocate
    \/ Return
    \/ WriteReport

Spec == Init /\ [][Next]_vars

\* main is sequential code and every command it runs returns: a step that
\* can be taken is taken.
FairSpec == Spec /\ WF_vars(Next)

(***************************************************************************)
(* The local path of a working copy, derived for two repositories.         *)
(***************************************************************************)
\* The characters a repository name (and what follows it in the URL) is made
\* of here: a letter, the underscore GitHub allows in repository names, and
\* the separator.
RepoChars == {"a", "_", "/"}

\* The repository URLs of organization o with up to MaxRepoLen characters
\* after the organization.
RepoPaths ==
    { GITHUB_PREFIX \o <<"o", "/">> \o t :
        t \in UNION { [1..n -> RepoChars] : n \in 1..MaxRepoLen } }

InitPaths ==
    /\ InitProgram
    /\ semver_enabled = check_semver
    /\ script = NoScript
    /\ run = 1
    /\ repo_paths \in RepoPaths \X RepoPaths
    /\ local_paths = <<>>

\* process_github_repo derives local_repo_path from its repo_path argument.
DeriveLocalPath ==
    /\ Len(local_paths) < Len(repo_paths)
    /\ local_paths' =
         Append(local_paths, local_repo_path(repo_paths[Len(local_paths) + 1]))
    /\ UNCHANGED << pc, globals, worktree, frame, semver_enabled, script, run, repo_paths >>

SpecPaths == InitPaths /\ [][DeriveLocalPath]_vars

(***************************************************************************)
(* process_github_repo called with check_semver set or not.                *)
(***************************************************************************)
InitSemver ==
    /\ InitProgram
    /\ semver_enabled \in BOOLEAN
    /\ script = NoScript
    /\ run = 1
    /\ repo_paths = <<>>
    /\ local_paths = <<>>

NextSemver ==
    \/ RegistryQuery
    \/ SkipNoRepository
    \/ SkipNonGithub
    \/ EnterProcess
    \/ Fetch
    \/ Clone
    \/ DiscoverTag
    \/ NoTag
    \/ SemverCheck
    \/ Checkout
    \/ BuildDefault
    \/ BuildFallback
    \/ Relocate
    \/ Return
    \/ WriteReport

SpecSemver == InitSemver /\ [][NextSemver]_vars

(***************************************************************************)
(* The program run twice on the same crate, with the same answers of the   *)
(* registry, of git, of cargo and of mv in both runs.                      *)
(***************************************************************************)
GithubCrates ==
    { c \in Catalog : c.repository.some /\ StartsWith(c.repository.val, GITHUB_PREFIX) }

\* Under script s the first run finds a tag and one of its builds succeeds.
\* Answers that are never asked for are fixed to one value.
FirstRunRelocates(s) ==
    /\ discover_tag_format(s.tags, s.crate.name, s.crate.max_version, s.queries)
          .tag_name.some
    /\ IF s.s0 = Succeeded
       THEN s.text = <<"error">> /\ s.fb = <<Succeeded, Succeeded>>
       ELSE IF s.fb[1] = Succeeded
       THEN s.fb[2] = Succeeded
       ELSE next_on_failure(select_fallback(s.text)) # "" /\ s.fb[2] = Succeeded

\* The answers of the collaborators: the crate the registry lists, the tags
\* of its repository, how each tag query ends, how the default build ends
\* and what it prints, and how the fallback invocations end.
Scripts ==
    UNION { { s \in [on : {TRUE}, crate : {c},
                     tags : TagSets(c.name, c.max_version),
                     queries : [1..NumTagFormats -> GitOutcomes],
                     s0 : CargoOutcomes,
                     text : StderrTexts,
                     fb : [1..2 -> CargoOutcomes]] : FirstRunRelocates(s) }
            : c \in GithubCrates }

InitRerun ==
    /\ InitProgram
    /\ semver_enabled = check_semver
    /\ script \in Scripts
    /\ run = 1
    /\ repo_paths = <<>>
    /\ local_paths = <<>>

\* The state agrees with the script: the registry query, git fetch, git
\* clone, git checkout, mv and the report write succeed, and the tags, the
\* tag queries and the builds are those of the script.
FollowsScript ==
    /\ exit \in {"running", "Ok"}
    /\ \A i \in 1..Len(crates) : crates[i] = script.crate
    /\ pc = "match" =>
         /\ repo_tags = script.tags
         /\ queries = discover_tag_format(script.tags, script.crate.name,
                                          script.crate.max_version, script.queries).queries
    /\ \A i \in 1..Len(ops) :
         ops[i].cmd # "cargo rustdoc" => (ops[i].spawned /\ ops[i].code = 0)
    /\ LET b == SelectSeq(ops, LAMBDA o : o.cmd = "cargo rustdoc")
       IN  \A i \in 1..Len(b) :
             LET o == IF i = 1 THEN script.s0 ELSE script.fb[i - 1]
             IN  b[i].spawned = o.spawned /\ b[i].code = o.code
    /\ stderr \in {<<>>, script.text}

\* main has ended with Ok(()) after relocating the artifact, and the program
\* is started again: the working copies and the files it wrote are still
\* there.
Restart ==
    /\ pc = "done"
    /\ exit = "Ok"
    /\ run = 1
    /\ artifacts # <<>>
    /\ run' = 2
    /\ pc' = "query"
    /\ exit' = "running"
    /\ crates' = <<>>
    /\ failures' = <<>>
    /\ EnterFrame(NoCrate)
    /\ UNCHANGED << worktree, artifacts, report, semver_enabled, script, repo_paths,
                    local_paths >>

NextRerun ==
    \/ RegistryQuery /\ FollowsScript'
    \/ EnterProcess /\ FollowsScript'
    \/ Fetch /\ FollowsScript'
    \/ Clone /\ FollowsScript'
    \/ DiscoverTag /\ FollowsScript'
    \/ Checkout /\ FollowsScript'
    \/ BuildDefault /\ FollowsScript'
    \/ BuildFallback /\ FollowsScript'
    \/ Relocate /\ FollowsScript'
    \/ Return /\ FollowsScript'
    \/ WriteReport /\ FollowsScript'
    \/ Restart

SpecRerun == InitRerun /\ [][NextRerun]_vars

(***************************************************************************)
(* Vocabulary of the properties.                                           *)
(***************************************************************************)
IsBuild(o) == o.cmd = "cargo rustdoc"
IsTreeOp(o) == o.cmd \in {"git checkout", "cargo rustdoc", "mv"}

\* The cargo rustdoc invocations made for the current crate, in order.
builds == SelectSeq(ops, IsBuild)

Failed(o) == ~o.spawned \/ o.code # 0

\* The candidates of the current crate and the positions of those that are
\* tags of its repository.
formats == tag_formats(crate_info.name, crate_info.max_version)
present == { i \in 1..NumTagFormats : formats[i] \in repo_tags }

\* C1: discover_tag_format queries the candidates in the order version,
\* v+version, name-version, name-v+version, and answers the first candidate
\* that is a tag of the repository, None when no candidate is one.
C1_FirstPresentCandidate ==
    pc = "match" =>
        /\ \A i \in 1..Len(queries) : queries[i].tag_name = formats[i]
        /\ IF present = {}
           THEN tag_name = NoString
           ELSE \E i \in present :
                  /\ \A j \in present : i <= j
                  /\ tag_name = Some(formats[i])

\* C2: a query answers Ok(true) only for a candidate that is itself a tag of
\* the repository, never because of a tag that merely contains it.
C2_WholeNameMatch ==
    pc = "match" =>
        \A i \in 1..Len(queries) :
            queries[i].result = "OkTrue" => queries[i].tag_name \in repo_tags

\* C2 witness: a query that ran answered Ok(false) for a candidate that is
\* not a tag while a tag of the repository strictly contains it.
C2_Witness ==
    /\ pc = "match"
    /\ \E i \in 1..Len(queries) :
         /\ queries[i].result = "OkFalse"
         /\ queries[i].tag_name \notin repo_tags
         /\ \E t \in repo_tags : Contains(t, queries[i].tag_name)

\* C3: a tag query that fails is not reported as "no tag found": the no-tag
\* outcome is produced only when every query answered that the tag is absent.
C3_QueryFailureSurfaced ==
    (pc = "match" /\ tag_name = NoString) =>
        \A i \in 1..Len(queries) : queries[i].result = "OkFalse"

\* C4: when the default build failed and its standard error contains
\* "ambiguous", the next invocation is S1 whatever else the text contains,
\* and S2, S2b and S3 are never run for the crate.
C4_AmbiguousFirst ==
    (builds # <<>> /\ Failed(builds[1]) /\ Contains(stderr, <<"ambiguous">>)) =>
        /\ (pc = "fallback" /\ Len(builds) = 1) => strategy = "S1"
        /\ pc \in {"mv", "ret"} => Len(builds) >= 2
        /\ Len(builds) >= 2 => builds[2].strategy = "S1"
        /\ \A i \in 1..Len(builds) : builds[i].strategy \notin {"S2", "S2b", "S3"}

\* C4 witness: S1 has run after a default build whose text held all three
\* markers.
C4_Witness ==
    /\ Len(builds) >= 2
    /\ builds[2].strategy = "S1"
    /\ Contains(stderr, <<"ambiguous">>)
    /\ Contains(stderr, <<"--lib">>)
    /\ Contains(stderr, <<"single target">>)

\* C5: when the default build failed and its standard error does not contain
\* "ambiguous", the next invocation is S2 exactly when the text contains both
\* "--lib" and "single target" and S3 otherwise, whatever the exit code.
C5_LibPairOrGeneric ==
    (builds # <<>> /\ builds[1].spawned /\ builds[1].code # 0
        /\ ~Contains(stderr, <<"ambiguous">>)) =>
        LET both == Contains(stderr, <<"--lib">>) /\ Contains(stderr, <<"single target">>)
            selected == IF both THEN "S2" ELSE "S3"
        IN  /\ (pc = "fallback" /\ Len(builds) = 1) => strategy = selected
            /\ pc \in {"mv", "ret"} => Len(builds) >= 2
            /\ Len(builds) >= 2 => builds[2].strategy = selected

\* C5 witness: S3 has run after a default build that exited with code 1 and
\* whose text held only one marker of the pair.
C5_Witness ==
    /\ Len(builds) >= 2
    /\ builds[1].code = 1
    /\ builds[2].strategy = "S3"
    /\ Contains(stderr, <<"--lib">>)
    /\ ~Contains(stderr, <<"single target">>)

Branch(s) ==
    CASE s \in {"S1", "S1b"} -> "ambiguous"
      [] s \in {"S2", "S2b"} -> "lib"
      [] s = "S3" -> "generic"
      [] OTHER -> "default"

\* C6: for each crate S0 is run once and first, a fallback is run only after
\* S0 failed, the fallbacks run all belong to one branch, and at most three
\* invocations are made.
C6_OneBranch ==
    /\ Len(builds) <= 3
    /\ pc \in {"fallback", "mv"} => builds # <<>>
    /\ (\E i \in 1..Len(ops) : ops[i].cmd = "mv") => builds # <<>>
    /\ builds # <<>> => builds[1].strategy = "S0"
    /\ \A i \in 2..Len(builds) : builds[i].strategy # "S0"
    /\ Len(builds) >= 2 => (builds[1].spawned /\ builds[1].code # 0)
    /\ pc = "fallback" => (builds[1].spawned /\ builds[1].code # 0)
    /\ \A i, j \in 2..Len(builds) : Branch(builds[i].strategy) = Branch(builds[j].strategy)
    /\ (pc = "fallback" /\ Len(builds) >= 2) => Branch(strategy) = Branch(builds[2].strategy)

\* C6 witness: three invocations were made for a crate and the last failed.
C6_Witness ==
    /\ pc = "ret"
    /\ Len(builds) = 3
    /\ Failed(builds[3])

\* C7: S1b is run exactly when S1 was run and failed, S2b exactly when S2 was
\* run and failed, whatever the captured text; nothing is run after S3; and a
\* failure of S1b, S2b or S3 ends the crate with that failure as its error.
C7_SubFallback ==
    /\ \A i \in 1..Len(builds) :
         /\ builds[i].strategy = "S1b" =>
              (i > 1 /\ builds[i - 1].strategy = "S1" /\ Failed(builds[i - 1]))
         /\ builds[i].strategy = "S2b" =>
              (i > 1 /\ builds[i - 1].strategy = "S2" /\ Failed(builds[i - 1]))
         /\ (builds[i].strategy = "S1" /\ Failed(builds[i])) =>
              IF i = Len(builds) THEN pc = "fallback" /\ strategy = "S1b"
              ELSE builds[i + 1].strategy = "S1b"
         /\ (builds[i].strategy = "S2" /\ Failed(builds[i])) =>
              IF i = Len(builds) THEN pc = "fallback" /\ strategy = "S2b"
              ELSE builds[i + 1].strategy = "S2b"
         /\ builds[i].strategy \in {"S1b", "S2b", "S3"} => i = Len(builds)
         /\ (builds[i].strategy \in {"S1b", "S2b", "S3"} /\ Failed(builds[i])) =>
              (pc = "ret" /\ ~result.ok /\ result.err = builds[i]
                 /\ ops[Len(ops)] = builds[i])

\* C7 witness: S2b was run after a failed S2, failed too, and the crate ended
\* with the error of S2b.
C7_Witness ==
    /\ pc = "ret"
    /\ Len(builds) = 3
    /\ builds[2].strategy = "S2" /\ Failed(builds[2])
    /\ builds[3].strategy = "S2b" /\ Failed(builds[3])
    /\ result = Err(builds[3])

\* The crate being processed has no record in failures.
NoFailureRecord == \A i \in 1..Len(failures) : failures[i].crate # crate_info

\* C8: when no candidate matched, process_github_repo returns Ok(()) without
\* running a checkout, a build or a relocation, and the batch loop goes on
\* without adding an artifact or a failure record.
C8_NoTagIsNoFailure ==
    /\ [](pc = "match" => \A i \in 1..Len(ops) : ~IsTreeOp(ops[i]))
    /\ [][ (pc = "match" /\ ~tag_name.some) =>
             (/\ pc' = "ret" /\ result' = OkUnit
              /\ ops' = ops /\ artifacts' = artifacts /\ failures' = failures
              /\ worktree' = worktree /\ tag_name' = tag_name) ]_vars
    /\ [][ (pc = "ret" /\ result = OkUnit /\ ~tag_name.some) =>
             (/\ pc' = "loop" /\ exit' = exit
              /\ artifacts' = artifacts /\ failures' = failures) ]_vars

\* C8 witness: a crate whose four queries all answered Ok(false) has returned
\* Ok(()) after the clone or fetch alone.
C8_Witness ==
    /\ pc = "ret"
    /\ ~tag_name.some
    /\ result = OkUnit
    /\ Len(ops) = 1
    /\ ops[1].cmd \in {"git clone", "git fetch"}

\* C9: no error met while processing a crate ends the batch: main ends only
\* with Ok, or with the error of the registry query or of the report write,
\* outside process_github_repo.
C9_PerPackageErrorsCaught ==
    pc = "done" => (exit \in {"Ok", "Err"} /\ crate_info = NoCrate)

\* Every invocation made after the failed default build failed too.
Exhausted ==
    /\ Len(builds) >= 2
    /\ \A i \in 1..Len(builds) : Failed(builds[i])

\* C10: when the default build and every invocation of the selected branch
\* failed, no relocation is run, the crate ends with the error of the last
\* invocation, and the batch loop adds exactly one failure record, holding the
\* crate and that error, and goes on.
C10_ExhaustedOneRecord ==
    /\ []( (pc = "ret" /\ Exhausted) =>
             (/\ result = Err(builds[Len(builds)])
              /\ builds[Len(builds)].strategy \in {"S1b", "S2b", "S3"}
              /\ \A i \in 1..Len(ops) : ops[i].cmd # "mv"
              /\ NoFailureRecord) )
    /\ [][ (pc = "ret" /\ Exhausted) =>
             (/\ failures' = Append(failures,
                    [crate |-> crate_info, error |-> builds[Len(builds)]])
              /\ report_lines(failures')[Len(failures')] =
                    [name |-> crate_info.name, max_version |-> crate_info.max_version,
                     error |-> builds[Len(builds)]]
              /\ artifacts' = artifacts
              /\ pc' = "loop" /\ exit' = "running") ]_vars

\* C10 witness: the last failure record holds the error of a failed S1b.
C10_Witness ==
    /\ pc = "loop"
    /\ failures # <<>>
    /\ failures[Len(failures)].error.strategy = "S1b"
    /\ failures[Len(failures)].crate = crates[Len(crates)]

\* The positions in ops of the runs of a command.
Runs(cmd) == { i \in 1..Len(ops) : ops[i].cmd = cmd }

\* S0 failed with "ambiguous" in its text and the retry S1 succeeded.
AmbiguousRetrySucceeded ==
    /\ Len(builds) = 2
    /\ Failed(builds[1])
    /\ Contains(stderr, <<"ambiguous">>)
    /\ builds[2].strategy = "S1"
    /\ ~Failed(builds[2])

\* The file name made of the name and the version of the current crate.
NameAndVersion ==
    Replace(crate_info.name, "-", <<"_">>) \o <<"-">> \o crate_info.max_version
        \o <<".json">>

\* C11 as stated: mv is run at most once per crate, right after a build that
\* succeeded and was the last one run; and when S0 failed with "ambiguous" and
\* S1 succeeded, one artifact named from the name and the version is relocated
\* and the crate returns Ok(()), with no failure record.
C11_AmbiguousRetryYieldsArtifact ==
    /\ Cardinality(Runs("mv")) <= 1
    /\ \A i \in Runs("mv") :
         i > 1 /\ ops[i - 1] = builds[Len(builds)] /\ ~Failed(ops[i - 1])
    /\ (pc = "ret" /\ AmbiguousRetrySucceeded) =>
         /\ result = OkUnit
         /\ NoFailureRecord
         /\ artifacts # <<>>
         /\ EndsWith(artifacts[Len(artifacts)], NameAndVersion)

\* C11, amended: mv is run at most once per crate, as the last command, right
\* after a build that succeeded and was the last one run; when S0 failed with
\* "ambiguous" and S1 succeeded, mv is run with a destination named from the
\* name and the version, and if mv succeeds that one artifact is relocated and
\* no failure record is made, while if mv fails nothing is relocated and the
\* crate ends with the error of mv.
C11_RelocateAfterSuccess ==
    /\ [](/\ Cardinality(Runs("mv")) <= 1
          /\ \A i \in Runs("mv") :
               /\ i = Len(ops)
               /\ i > 1 /\ ops[i - 1] = builds[Len(builds)] /\ ~Failed(ops[i - 1])
          /\ pc = "mv" => (builds # <<>> /\ ~Failed(builds[Len(builds)]))
          /\ (pc = "ret" /\ AmbiguousRetrySucceeded) =>
               /\ Runs("mv") = {Len(ops)}
               /\ EndsWith(ops[Len(ops)].arg, NameAndVersion)
               /\ NoFailureRecord
               /\ IF Failed(ops[Len(ops)])
                  THEN result = Err(ops[Len(ops)])
                  ELSE /\ result = OkUnit
                       /\ artifacts # <<>>
                       /\ EndsWith(artifacts[Len(artifacts)], NameAndVersion)
                       /\ \A j \in 1..(Len(artifacts) - 1) :
                            ~EndsWith(artifacts[j], NameAndVersion))
    /\ [][ (pc = "ret" /\ AmbiguousRetrySucceeded /\ ~Failed(ops[Len(ops)])) =>
             (failures' = failures /\ artifacts' = artifacts /\ pc' = "loop") ]_vars
    /\ [][ (pc = "mv" /\ Failed(ops'[Len(ops')])) => artifacts' = artifacts ]_vars

\* C11 witness: S0 failed with "ambiguous", S1 succeeded and mv relocated the
\* artifact of crate a-b.
C11_Witness ==
    /\ pc = "ret"
    /\ AmbiguousRetrySucceeded
    /\ ~Failed(ops[Len(ops)])
    /\ ops[Len(ops)].cmd = "mv"
    /\ artifacts[Len(artifacts)] = <<"./localdata/rustdocs/", "a", "_", "b", "-", "1", "0", ".json">>

\* C12: for each crate the tag is resolved once, before any checkout;
\* git checkout is run at most once, with the resolved tag, and every build
\* and the relocation come after a checkout that succeeded; and while a build
\* runs or the artifact is relocated the working copy is at the resolved tag.
C12_BuildsAtResolvedTag ==
    /\ pc \in {"acquire", "tags"} =>
         (tag_name = NoString /\ queries = <<>> /\ Runs("git checkout") = {})
    /\ pc = "match" => Runs("git checkout") = {}
    /\ Cardinality(Runs("git checkout")) <= 1
    /\ \A i \in Runs("git checkout") :
         /\ tag_name.some
         /\ ops[i].arg = tag_name.val
         /\ \A j \in 1..Len(ops) : (IsBuild(ops[j]) \/ ops[j].cmd = "mv") => i < j
         /\ i < Len(ops) => ~Failed(ops[i])
    /\ (pc \in {"S0", "fallback", "mv"} \/ builds # <<>> \/ Runs("mv") # {}) =>
         /\ \E i \in Runs("git checkout") : ~Failed(ops[i])
         /\ path \in DOMAIN worktree
         /\ worktree[path] = tag_name
         /\ tag_name.some

\* C12 witness: the third build of crate a-b has run in a working copy that
\* is at the tag a-b-v10.
C12_Witness ==
    /\ Len(builds) = 3
    /\ tag_name = Some(<<"a", "-", "b", "-", "v", "1", "0">>)
    /\ worktree[path] = tag_name

\* An error of git clone, git fetch or git checkout.
IsGitError(r) == ~r.ok /\ r.err.cmd \in {"git clone", "git fetch", "git checkout"}

\* C13: a git clone, git fetch or git checkout that fails is the last command
\* run for the crate: no build and no relocation follows, the crate ends with
\* its error, and the batch loop adds exactly one failure record for the
\* crate and goes on to the next crate.
C13_GitFailureIsFatal ==
    /\ [](\A i \in Runs("git clone") \cup Runs("git fetch") \cup Runs("git checkout") :
            Failed(ops[i]) =>
               /\ i = Len(ops)
               /\ pc = "ret"
               /\ result = Err(ops[i])
               /\ builds = <<>> /\ Runs("mv") = {}
               /\ NoFailureRecord)
    /\ [][ (pc = "ret" /\ IsGitError(result)) =>
             (/\ failures' = Append(failures, [crate |-> crate_info, error |-> result.err])
              /\ artifacts' = artifacts
              /\ crates' = crates
              /\ pc' = "loop" /\ exit' = "running") ]_vars

\* C13 witness: the batch loop is back after a crate whose git checkout
\* failed, with the record of that failure.
C13_Witness ==
    /\ pc = "loop"
    /\ failures # <<>>
    /\ failures[Len(failures)].error.cmd = "git checkout"
    /\ failures[Len(failures)].crate = crates[Len(crates)]
    /\ NextCrates(crates) # {}

\* C14: the cargo-semver-checks run is made only when check_semver is set,
\* which main does not do; and however the run ends, failed or not, the step
\* changes nothing but the Result being matched and the crate goes on to the
\* git checkout: nothing is returned, no command is added or dropped, no
\* artifact and no failure record is made of it, the Result is dropped by the
\* checkout, and its error is never the error of a crate.
C14_SemverNonFatal ==
    /\ [](/\ ~check_semver
          /\ ~semver_enabled => (semver = NoOp /\ pc # "checkout")
          /\ pc = "checkout" => (semver_enabled /\ semver.cmd = "cargo-semver-checks")
          /\ semver # NoOp =>
               /\ pc = "checkout"
               /\ result = OkUnit
               /\ tag_name.some
               /\ Len(ops) = 1 /\ ops[1].cmd \in {"git clone", "git fetch"}
               /\ NoFailureRecord
          /\ result.err.cmd # "cargo-semver-checks"
          /\ \A i \in 1..Len(failures) : failures[i].error.cmd # "cargo-semver-checks"
          /\ (semver_enabled /\ Runs("git checkout") # {}) =>
               (semver = NoOp /\ Runs("git checkout") = {2}))
    /\ [][ (pc = "match" /\ tag_name.some /\ semver_enabled) =>
             (/\ pc' = "checkout"
              /\ semver'.cmd = "cargo-semver-checks"
              /\ UNCHANGED << exit, crates, worktree, artifacts, failures, report,
                              crate_info, tag_name, stderr, strategy, ops, result >>) ]_vars
    /\ [][ pc = "checkout" =>
             (/\ semver' = NoOp
              /\ pc' \in {"S0", "ret"}
              /\ ops' = Append(ops, ops'[2])
              /\ ops'[2].cmd = "git checkout" /\ ops'[2].arg = tag_name.val
              /\ pc' = "S0" <=> ~Failed(ops'[2])) ]_vars

\* C14 witness: the cargo-semver-checks run failed and the crate is about to
\* run git checkout.
C14_Witness ==
    /\ semver_enabled
    /\ pc = "checkout"
    /\ Failed(semver)
    /\ result = OkUnit

\* C15: the failures vector only grows, by one record of the crate just
\* processed at a time; the error log is written only when the loop over the
\* crates is over, and once; and when main ends with Ok(()) the log holds one
\* record per failure, in the order of the failures vector.
C15_ReportOfAllFailures ==
    /\ [][ \/ failures' = failures
           \/ /\ pc = "ret"
              /\ Len(failures') = Len(failures) + 1
              /\ SubSeq(failures', 1, Len(failures)) = failures
              /\ failures'[Len(failures')].crate = crates[Len(crates)] ]_vars
    /\ [][ report' # report => (pc = "loop" /\ pc' = "done") ]_vars
    /\ [](pc # "done" => report = <<>>)
    /\ []((pc = "done" /\ exit = "Ok") =>
            /\ Len(report) = Len(failures)
            /\ \A i \in 1..Len(failures) :
                 /\ report[i].name = failures[i].crate.name
                 /\ report[i].max_version = failures[i].crate.max_version
                 /\ report[i].error = failures[i].error
            /\ \A i, j \in 1..Len(failures) :
                 i # j => failures[i].crate # failures[j].crate)

\* C16: the local path is a function of the organization/repository
\* identifier alone, and two different identifiers never have the same local
\* path.
C16_LocalPathInjective ==
    Len(local_paths) = 2 =>
        /\ org_and_repo_name(repo_paths[1]) = org_and_repo_name(repo_paths[2])
              => local_paths[1] = local_paths[2]
        /\ org_and_repo_name(repo_paths[1]) # org_and_repo_name(repo_paths[2])
              => local_paths[1] # local_paths[2]

\* The files in ./localdata/rustdocs.
rustdoc_files == { artifacts[i] : i \in 1..Len(artifacts) }

BuildOptions(argv) ==
    LET k == CHOOSE i \in 1..Len(argv) : argv[i] = "--"
    IN  [package |-> Contains(SubSeq(argv, 1, k), <<"--package">> \o crate_info.name),
         flags |-> { argv[i] : i \in 4..(k - 1) }
                     \ ({"--package"} \cup { crate_info.name[j] : j \in 1..Len(crate_info.name) })]

\* The options of the catalog: explicit package or not, all features or the
\* default ones, library only or no restriction.
CatalogOptions(s) ==
    [package |-> s \in {"S0", "S2", "S2b", "S3"},
     flags |-> (IF s \in {"S0", "S1", "S2"} THEN {"--all-features"} ELSE {})
                  \cup (IF s \in {"S2", "S2b"} THEN {"--lib"} ELSE {})]

\* C18: every cargo rustdoc invocation is run with the options the catalog
\* gives for its strategy, and with the JSON output arguments.
C18_CatalogOptions ==
    \A i \in 1..Len(builds) :
        /\ builds[i].strategy \in Strategies
        /\ SubSeq(builds[i].arg, 1, 3) = <<"cargo", "+nightly", "rustdoc">>
        /\ BuildOptions(builds[i].arg) = CatalogOptions(builds[i].strategy)
        /\ EndsWith(builds[i].arg, <<"--output-format", "json">>)

\* C18 witness: S0, S2 and S2b have been run for crate a-b.
C18_Witness ==
    /\ Len(builds) = 3
    /\ builds[3].strategy = "S2b"
    /\ crate_info.name = <<"a", "-", "b">>
    /\ BuildOptions(builds[3].arg) = [package |-> TRUE, flags |-> {"--lib"}]

\* The failure records of crate c and its artifacts among the files relocated.
RecordsOf(c) == { i \in 1..Len(failures) : failures[i].crate = c }
ArtifactsOf(c) ==
    { i \in 1..Len(artifacts) :
        artifacts[i] = <<"./localdata/rustdocs/">> \o Replace(c.name, "-", <<"_">>)
                          \o <<"-">> \o c.max_version \o <<".json">> }

\* The three ways process_github_repo returns.
ReturnedSuccess ==
    /\ result = OkUnit
    /\ tag_name.some
    /\ Runs("mv") = {Len(ops)} /\ ~Failed(ops[Len(ops)])
    /\ Cardinality(ArtifactsOf(crate_info)) = 1

ReturnedGap ==
    /\ result = OkUnit
    /\ ~tag_name.some
    /\ \A i \in 1..Len(ops) : ~IsTreeOp(ops[i])
    /\ ArtifactsOf(crate_info) = {}

ReturnedFailure ==
    /\ ~result.ok
    /\ result.err = ops[Len(ops)] /\ Failed(ops[Len(ops)])
    /\ ArtifactsOf(crate_info) = {}

\* C19: a crate whose processing returns has either relocated one artifact
\* and returned Ok(()), or found no tag, relocated nothing and returned Ok(()),
\* or relocated nothing and returned an error, of which the batch loop makes
\* exactly one failure record; a failed mv is of the third kind; and no crate
\* ever has an artifact together with a failure record, or two records.
C19_ThreeOutcomes ==
    /\ [](pc = "ret" =>
            /\ NoFailureRecord
            /\ \/ ReturnedSuccess /\ ~ReturnedGap /\ ~ReturnedFailure
               \/ ~ReturnedSuccess /\ ReturnedGap /\ ~ReturnedFailure
               \/ ~ReturnedSuccess /\ ~ReturnedGap /\ ReturnedFailure
            /\ (\E i \in Runs("mv") : Failed(ops[i])) => ReturnedFailure)
    /\ [][ pc = "ret" =>
             (/\ artifacts' = artifacts
              /\ failures' = IF ReturnedFailure
                             THEN Append(failures, [crate |-> crate_info, error |-> result.err])
                             ELSE failures) ]_vars
    /\ [](\A i \in 1..Len(crates) :
            /\ Cardinality(RecordsOf(crates[i])) <= 1
            /\ Cardinality(ArtifactsOf(crates[i])) <= 1
            /\ RecordsOf(crates[i]) = {} \/ ArtifactsOf(crates[i]) = {})

\* C19 witness: the batch loop holds the failure record of a crate whose
\* build succeeded and whose mv failed: the crate has no artifact.
C19_Witness ==
    /\ pc = "loop"
    /\ failures # <<>>
    /\ failures[Len(failures)].error.cmd = "mv"
    /\ failures[Len(failures)].crate = crates[Len(crates)]
    /\ ArtifactsOf(crates[Len(crates)]) = {}

\* The commands run for the current crate stay within their numbers.
WithinResources ==
    /\ Cardinality(Runs("git clone") \cup Runs("git fetch")) <= 1
    /\ Len(queries) <= 4
    /\ Cardinality(Runs("git checkout")) <= 1
    /\ Len(builds) <= 3
    /\ Cardinality(Runs("mv")) <= 1
    /\ Len(ops) <= 6

\* The crates are taken one by one in the order of the list, none twice.
InListOrder ==
    /\ \A i, j \in 1..Len(crates) : crates[i].name = crates[j].name => i = j
    /\ crate_info # NoCrate => crate_info = crates[Len(crates)]
    /\ Len(crates) <= MaxCrates

\* C20: every command returning, the batch ends; each crate is processed at
\* most once, in the order of the list, with at most one clone or fetch, four
\* tag queries, one checkout, three builds and one relocation; and the batch
\* ends past the last crate, by the write of the error log (or by the error
\* of the registry query, when there is no list).
C20_TerminatesWithReport ==
    /\ [](WithinResources /\ InListOrder)
    /\ [][ crates' # crates => (pc = "loop" /\ Len(crates') = Len(crates) + 1
                                  /\ SubSeq(crates', 1, Len(crates)) = crates) ]_vars
    /\ <>(pc = "done")
    /\ [](pc = "done" => (crate_info = NoCrate /\ exit \in {"Ok", "Err"}))
====
